---- MODULE Spec2Model ----
(***************************************************************************)
(* Model of the sales-file ingestion programs of this repository:          *)
(*   src/main.go            insert-or-ignore, then conditional refresh     *)
(*   src/unnamed/part_000   insert-or-ignore, then purge of conflicts      *)
(*   src/test_4/main.go     deduplicate, filter concurrently, replace      *)
(* All three share main: one transaction per input file, committed when    *)
(* processFile returns nil, rolled back (and the run ended) otherwise.     *)
(*                                                                         *)
(* A csv field is a sequence of one-character strings, so that parsing     *)
(* (strconv, time.Parse, strings.TrimSpace/HasSuffix) is computed.  A row  *)
(* is the sequence of its five fields.  A store (the sales table, or a     *)
(* transaction's view of it) is a function from the stored ids to rows.    *)
(* The csv reader itself (quoting, field counts) is outside the model.     *)
(***************************************************************************)
EXTENDS Integers, Sequences, FiniteSets, TLC

VARIABLES
    files,        \* flag.Args(): the input files, each a sequence of csv rows
    fileIdx,      \* index of the file main's loop is at
    pc,           \* position of the main goroutine
    db,           \* committed contents of the sales table
    tx,           \* the open transaction's view of the sales table
    rowIdx,       \* next row r.Read() returns
    duplicates,   \* part_000: ids whose insert affected no row
    snapshots,    \* history: committed contents at start and after each commit
    goroutinesNumber, \* test_4: *goroutinesNumber after main's clamp
    recordsDedup, \* test_4: result of loadAndDeduplicateRecords
    chunkSize,    \* test_4: processFile's chunkSize
    chunkStart,   \* test_4: processFile's chunkStart
    chunkEnd,     \* test_4: processFile's chunkEnd
    workers,      \* test_4: the filter goroutines, in the order started
    wg,           \* test_4: the WaitGroup counter
    waiter,       \* test_4: position of the goroutine that waits on wg
    written       \* test_4 history: records passed to stmt.Exec, in order

mainVars == <<files, fileIdx, pc, db, tx, rowIdx, duplicates, snapshots>>
pipeVars == <<goroutinesNumber, recordsDedup, chunkSize, chunkStart, chunkEnd,
              workers, wg, waiter, written>>
vars == <<mainVars, pipeVars>>

(***************************************************************************)
(* Bounds of the model.                                                    *)
(***************************************************************************)
MaxRows == 3
MaxGoroutines == 2
MaxRecords == 12
MaxFlag == 5
MaxLiveRecords == 4
MaxLiveFlag == 3
MaxFilterRecords == 22

(***************************************************************************)
(* Text and parsing.                                                       *)
(***************************************************************************)
Digits == <<"0", "1", "2", "3", "4", "5", "6", "7", "8", "9">>

IsDigit(c) == \E d \in 1..10 : Digits[d] = c

DigitVal(c) == (CHOOSE d \in 1..10 : Digits[d] = c) - 1

AllDigits(s) == s /= <<>> /\ \A i \in 1..Len(s) : IsDigit(s[i])

RECURSIVE DecVal(_)
DecVal(s) ==
    IF s = <<>> THEN 0
    ELSE DecVal(SubSeq(s, 1, Len(s) - 1)) * 10 + DigitVal(s[Len(s)])

\* strconv.ParseInt(record[0], 0, 64) / strconv.Atoi on decimal text
ParseIntOk(s) == AllDigits(s)
ParseInt(s) == DecVal(s)

SlashAt(s) == {i \in 1..Len(s) : s[i] = "/"}

DaysIn(month, year) ==
    IF month \in {4, 6, 9, 11} THEN 30
    ELSE IF month = 2 THEN (IF year % 4 = 0 THEN 29 ELSE 28)
    ELSE 31

\* the three number fields of a "1/2/06" date, when it has exactly two slashes
DateMonth(s) == SubSeq(s, 1, (CHOOSE i \in SlashAt(s) : \A j \in SlashAt(s) : i <= j) - 1)
DateDay(s) ==
    LET p1 == CHOOSE i \in SlashAt(s) : \A j \in SlashAt(s) : i <= j
        p2 == CHOOSE i \in SlashAt(s) : \A j \in SlashAt(s) : i >= j
    IN SubSeq(s, p1 + 1, p2 - 1)
DateYear(s) ==
    SubSeq(s, (CHOOSE i \in SlashAt(s) : \A j \in SlashAt(s) : i >= j) + 1, Len(s))

\* time.Parse two-digit year: yy >= 69 is 19yy, yy < 69 is 20yy
FullYear(yy) == IF yy >= 69 THEN 1900 + yy ELSE 2000 + yy

\* time.Parse(dateLayout, s) with dateLayout = "1/2/06"
ParseDateOk(s) ==
    /\ Cardinality(SlashAt(s)) = 2
    /\ AllDigits(DateMonth(s)) /\ Len(DateMonth(s)) <= 2
    /\ AllDigits(DateDay(s)) /\ Len(DateDay(s)) <= 2
    /\ AllDigits(DateYear(s)) /\ Len(DateYear(s)) = 2
    /\ DecVal(DateMonth(s)) \in 1..12
    /\ DecVal(DateDay(s)) \in 1..DaysIn(DecVal(DateMonth(s)), FullYear(DecVal(DateYear(s))))

\* The parsed date as the store orders it: go-sqlite3 binds a time.Time as the
\* text "YYYY-MM-DD hh:mm:ss+00:00", which sqlite compares as text, that is by
\* year, then month, then day.
ParseDate(s) ==
    FullYear(DecVal(DateYear(s))) * 10000 + DecVal(DateMonth(s)) * 100 + DecVal(DateDay(s))

NeverEmptyRecord(record) == FALSE

\* returns true if all strings in a slice are empty strings
isEmptyRecord(record) == \A i \in 1..Len(record) : record[i] = <<>>

(***************************************************************************)
(* The store.                                                              *)
(***************************************************************************)
EmptyStore == <<>>

NewRow(address, suburb, date, value) ==
    [address |-> address, suburb |-> suburb, date |-> date, value |-> value]

\* INSERT OR IGNORE INTO sales VALUES(?, ?, ?, ?, ?)
InsertOrIgnore(s, id, row) ==
    IF id \in DOMAIN s THEN s ELSE (id :> row) @@ s

AffectedAlwaysOne(s, id) == 1

\* RowsAffected() of that insert
InsertAffected(s, id) == IF id \in DOMAIN s THEN 0 ELSE 1

UpdateNoIdSetsAll(s, id, row) ==
    [k \in DOMAIN s |-> IF s[k].date <= row.date THEN row ELSE s[k]]

UpdateIfOlderOrEqual(s, id, row) ==
    [k \in DOMAIN s |-> IF k = id /\ s[k].date >= row.date THEN row ELSE s[k]]

UpdateIfStrictlyNewer(s, id, row) ==
    [k \in DOMAIN s |-> IF k = id /\ s[k].date < row.date THEN row ELSE s[k]]

\* UPDATE sales SET address=?, suburb=?, Date=?, Value=? WHERE id=? AND Date<=?
UpdateIfNewer(s, id, row) ==
    [k \in DOMAIN s |-> IF k = id /\ s[k].date <= row.date THEN row ELSE s[k]]

\* INSERT OR REPLACE INTO sales VALUES(?, ?, ?, ?, ?)
InsertOrReplace(s, id, row) == (id :> row) @@ s

RollbackKeepsWrites(committed, view) == view

\* tx.Rollback(): the transaction's writes are discarded
TxRollback(committed, view) == committed

\* tx.Commit(): the transaction's writes become the table's contents
TxCommit(committed, view) == view

(***************************************************************************)
(* Inputs.                                                                 *)
(***************************************************************************)
Header == <<<<"i", "d">>, <<"a">>, <<"s">>, <<"d">>, <<"v">>>>
BlankRow == <<<<>>, <<>>, <<>>, <<>>, <<>>>>

Date0105 == <<"1", "/", "5", "/", "2", "0">>
Date0110 == <<"1", "/", "1", "0", "/", "2", "0">>
Date0115 == <<"1", "/", "1", "5", "/", "2", "0">>
Date9912 == <<"1", "2", "/", "3", "1", "/", "9", "9">>
BadDate == <<"2", "/", "3", "0", "/", "2", "0">>

RawRow(id, address, date, value) == <<id, address, <<"S">>, date, value>>

\* rows of the files given to src/main.go and src/unnamed/part_000
SeqRows ==
    {RawRow(id, a, d, <<"V">>) : id \in {<<"1">>, <<"2">>}, a \in {<<"A">>, <<"B">>},
                                 d \in {Date0105, Date0110, Date0115}}
    \cup {BlankRow,
          RawRow(<<"x">>, <<"A">>, Date0110, <<"V">>),
          RawRow(<<"1">>, <<"A">>, BadDate, <<"V">>)}

SeqsUpTo(S, n) == UNION {[1..k -> S] : k \in 0..n}

\* a file: nothing at all, or a header line followed by at most n rows
FilesUpTo(rowSet, n) == {<<>>} \cup {<<Header>> \o rs : rs \in SeqsUpTo(rowSet, n)}

FilesOver(rowSet) == FilesUpTo(rowSet, MaxRows)

\* a second file that differs from the first: a good row, then a malformed one
ProbeFiles ==
    {<<Header, RawRow(<<"1">>, <<"B">>, Date9912, <<"V">>),
       RawRow(<<"2">>, <<"B">>, Date0115, <<"V">>),
       RawRow(<<"x">>, <<"A">>, Date0110, <<"V">>)>>}

StoredZ == NewRow(<<"Z">>, <<"S">>, 20200110, <<"V">>)

InitialStores ==
    {EmptyStore, (1 :> StoredZ), (2 :> StoredZ), (1 :> StoredZ) @@ (2 :> StoredZ)}

(***************************************************************************)
(* main: one transaction per file.                                         *)
(***************************************************************************)
PipeIdle ==
    /\ goroutinesNumber = 1
    /\ recordsDedup = <<>>
    /\ chunkSize = 0 /\ chunkStart = 0 /\ chunkEnd = 0
    /\ workers = <<>>
    /\ wg = 0
    /\ waiter = "none"
    /\ written = <<>>

InitMain(rowSet, stores) ==
    /\ \E f \in FilesOver(rowSet) : files \in {<<f, f>>} \cup {<<f, g>> : g \in ProbeFiles}
    /\ db \in stores
    /\ tx = db
    /\ snapshots = <<db>>
    /\ fileIdx = 1
    /\ pc = "main"
    /\ rowIdx = 1
    /\ duplicates = {}

\* db.Begin()
Begin ==
    /\ pc = "main"
    /\ tx' = db
    /\ rowIdx' = 1
    /\ duplicates' = {}
    /\ pc' = "process"
    /\ UNCHANGED <<files, fileIdx, db, snapshots, pipeVars>>

\* processFile returned nil: tx.Commit(), next file
Commit ==
    /\ pc = "commit"
    /\ db' = TxCommit(db, tx)
    /\ snapshots' = Append(snapshots, db')
    /\ fileIdx' = fileIdx + 1
    /\ pc' = IF fileIdx = Len(files) THEN "done" ELSE "main"
    /\ UNCHANGED <<files, tx, rowIdx, duplicates, pipeVars>>

\* processFile returned an error: tx.Rollback(), log.Fatal
Rollback ==
    /\ pc = "rollback"
    /\ db' = TxRollback(db, tx)
    /\ pc' = "fatal"
    /\ UNCHANGED <<files, fileIdx, tx, rowIdx, duplicates, snapshots, pipeVars>>

\* skip the first line; an empty input returns nil
SkipHeader ==
    /\ pc = "process"
    /\ IF Len(files[fileIdx]) = 0
       THEN pc' = "commit" /\ rowIdx' = rowIdx
       ELSE pc' = "rows" /\ rowIdx' = 2
    /\ UNCHANGED <<files, fileIdx, db, tx, duplicates, snapshots, pipeVars>>

RowId(record) == ParseInt(record[1])
RowOf(record) == NewRow(record[2], record[3], ParseDate(record[4]), record[5])
RowParses(record) == ParseIntOk(record[1]) /\ ParseDateOk(record[4])

(***************************************************************************)
(* src/main.go: processFile, insert-or-ignore then conditional refresh.    *)
(***************************************************************************)
ReadRowRefresh ==
    /\ pc = "rows"
    /\ LET file == files[fileIdx] IN
       IF rowIdx > Len(file)
       THEN pc' = "commit" /\ UNCHANGED <<tx, rowIdx>>
       ELSE LET record == file[rowIdx] IN
            IF isEmptyRecord(record)
            THEN rowIdx' = rowIdx + 1 /\ UNCHANGED <<tx, pc>>
            ELSE IF ~RowParses(record)
            THEN pc' = "rollback" /\ UNCHANGED <<tx, rowIdx>>
            ELSE LET inserted == InsertOrIgnore(tx, RowId(record), RowOf(record)) IN
                 \E exec \in {"ok", "insertFails", "updateFails"} :
                    IF exec = "insertFails"
                    THEN pc' = "rollback" /\ UNCHANGED <<tx, rowIdx>>
                    ELSE IF exec = "updateFails"
                    THEN pc' = "rollback" /\ tx' = inserted /\ rowIdx' = rowIdx
                    ELSE /\ tx' = UpdateIfNewer(inserted, RowId(record), RowOf(record))
                         /\ rowIdx' = rowIdx + 1
                         /\ pc' = pc
    /\ UNCHANGED <<files, fileIdx, db, duplicates, snapshots, pipeVars>>

InitRefresh == InitMain(SeqRows, InitialStores) /\ PipeIdle

NextRefresh == Begin \/ SkipHeader \/ ReadRowRefresh \/ Commit \/ Rollback

SpecRefresh == InitRefresh /\ [][NextRefresh]_vars

(***************************************************************************)
(* src/unnamed/part_000: processFile, insert-or-ignore then purge of the   *)
(* ids whose insert affected no row.                                       *)
(***************************************************************************)
PurgeRows ==
    {RawRow(id, a, Date0110, <<"V">>) : id \in {<<"1">>, <<"2">>, <<"3">>},
                                        a \in {<<"A">>, <<"B">>}}
    \cup {BlankRow,
          RawRow(<<"x">>, <<"A">>, Date0110, <<"V">>),
          RawRow(<<"1">>, <<"A">>, BadDate, <<"V">>)}

PurgeStores ==
    InitialStores \cup {(3 :> StoredZ), (1 :> StoredZ) @@ (3 :> StoredZ)}

ReadRowPurge ==
    /\ pc = "rows"
    /\ LET file == files[fileIdx] IN
       IF rowIdx > Len(file)
       THEN pc' = "remove" /\ UNCHANGED <<tx, rowIdx, duplicates>>
       ELSE LET record == file[rowIdx] IN
            IF isEmptyRecord(record)
            THEN rowIdx' = rowIdx + 1 /\ UNCHANGED <<tx, pc, duplicates>>
            ELSE IF ~RowParses(record)
            THEN pc' = "rollback" /\ UNCHANGED <<tx, rowIdx, duplicates>>
            ELSE \E exec \in {"ok", "insertFails", "affectedFails"} :
                    IF exec = "insertFails"
                    THEN pc' = "rollback" /\ UNCHANGED <<tx, rowIdx, duplicates>>
                    ELSE IF exec = "affectedFails"
                    THEN /\ pc' = "rollback"
                         /\ tx' = InsertOrIgnore(tx, RowId(record), RowOf(record))
                         /\ UNCHANGED <<rowIdx, duplicates>>
                    ELSE /\ tx' = InsertOrIgnore(tx, RowId(record), RowOf(record))
                         /\ duplicates' =
                                IF InsertAffected(tx, RowId(record)) = 0
                                THEN duplicates \cup {RowId(record)}
                                ELSE duplicates
                         /\ rowIdx' = rowIdx + 1
                         /\ pc' = pc
    /\ UNCHANGED <<files, fileIdx, db, snapshots, pipeVars>>

DeleteNothing(s, ids) == s

\* DELETE FROM sales WHERE id=?, executed for each of the given ids
DeleteIds(s, ids) == [k \in (DOMAIN s) \ ids |-> s[k]]

\* removeSalesWithIds: the loop deletes the ids in the map's (arbitrary)
\* order; it either deletes them all, or one Exec fails after some were
RemoveSales ==
    /\ pc = "remove"
    /\ \/ /\ tx' = DeleteIds(tx, duplicates)
          /\ pc' = "commit"
       \/ /\ \E deleted \in SUBSET duplicates :
                /\ deleted /= duplicates
                /\ tx' = DeleteIds(tx, deleted)
          /\ pc' = "rollback"
    /\ UNCHANGED <<files, fileIdx, db, rowIdx, duplicates, snapshots, pipeVars>>

InitPurge == InitMain(PurgeRows, PurgeStores) /\ PipeIdle

NextPurge == Begin \/ SkipHeader \/ ReadRowPurge \/ RemoveSales \/ Commit \/ Rollback

SpecPurge == InitPurge /\ [][NextPurge]_vars

(***************************************************************************)
(* src/test_4/main.go: records, deduplication and the business filter.     *)
(***************************************************************************)
MinValue == 400000
FilterPeriod == 10

max(a, b) == IF a > b THEN a ELSE b

min(a, b) == IF a < b THEN a ELSE b

\* NewRecordFromStrings succeeds on a non-empty row
RecordParses(strings) ==
    /\ ParseIntOk(strings[1])
    /\ ParseDateOk(strings[4])
    /\ ParseIntOk(strings[5])

NewRecordFromStrings(strings) ==
    [id |-> ParseInt(strings[1]), address |-> strings[2], suburb |-> strings[3],
     date |-> ParseDate(strings[4]), value |-> ParseInt(strings[5])]

\* loadAndDeduplicateRecords returns no error: every row is blank or parses
LoadOk(file) ==
    \A i \in 2..Len(file) : isEmptyRecord(file[i]) \/ RecordParses(file[i])

\* records: one record per non-blank row after the header, in file order
RECURSIVE RecordsFrom(_, _)
RecordsFrom(file, i) ==
    IF i > Len(file) THEN <<>>
    ELSE IF isEmptyRecord(file[i]) THEN RecordsFrom(file, i + 1)
    ELSE <<NewRecordFromStrings(file[i])>> \o RecordsFrom(file, i + 1)

\* duplicates: map[id]inserts_num
InsertCounts(records) ==
    [id \in {records[i].id : i \in 1..Len(records)} |->
        Cardinality({i \in 1..Len(records) : records[i].id = id})]

RECURSIVE KeepAllRecords(_, _)
KeepAllRecords(records, inserts) ==
    IF records = <<>> THEN <<>>
    ELSE IF inserts[Head(records).id] >= 1
         THEN <<Head(records)>> \o KeepAllRecords(Tail(records), inserts)
         ELSE KeepAllRecords(Tail(records), inserts)

\* filterDuplicates filters out records inserted more than once
RECURSIVE filterDuplicates(_, _)
filterDuplicates(records, inserts) ==
    IF records = <<>> THEN <<>>
    ELSE IF inserts[Head(records).id] = 1
         THEN <<Head(records)>> \o filterDuplicates(Tail(records), inserts)
         ELSE filterDuplicates(Tail(records), inserts)

loadAndDeduplicateRecords(file) ==
    LET records == RecordsFrom(file, 2)
    IN filterDuplicates(records, InsertCounts(records))

IsSpace(c) == c \in {" ", "\t", "\n", "\r"}

\* strings.TrimSpace
RECURSIVE TrimLeft(_)
TrimLeft(s) == IF s /= <<>> /\ IsSpace(Head(s)) THEN TrimLeft(Tail(s)) ELSE s
RECURSIVE TrimRight(_)
TrimRight(s) ==
    IF s /= <<>> /\ IsSpace(s[Len(s)]) THEN TrimRight(SubSeq(s, 1, Len(s) - 1)) ELSE s
TrimSpace(s) == TrimRight(TrimLeft(s))

\* strings.HasSuffix
HasSuffix(s, suffix) ==
    /\ Len(s) >= Len(suffix)
    /\ SubSeq(s, Len(s) - Len(suffix) + 1, Len(s)) = suffix

ExcludedSuffix(address) ==
    LET addrTrim == TrimSpace(address) IN
    \/ HasSuffix(addrTrim, <<"A", "V", "E">>)
    \/ HasSuffix(addrTrim, <<"C", "R", "E", "S">>)
    \/ HasSuffix(addrTrim, <<"P", "L">>)

\* the loop of filter, entered with counter i on the records still to visit
RECURSIVE filterFrom(_, _)
filterFrom(records, i) ==
    IF records = <<>> THEN <<>>
    ELSE LET rec == Head(records) IN
         IF rec.value < MinValue THEN filterFrom(Tail(records), i)
         ELSE IF ExcludedSuffix(rec.address) THEN filterFrom(Tail(records), i)
         ELSE IF i + 1 = FilterPeriod THEN filterFrom(Tail(records), 0)
         ELSE <<rec>> \o filterFrom(Tail(records), i + 1)

filterCountingFromOne(records) == filterFrom(records, 1)

\* filter: var i int starts at zero in every call
filter(records) == filterFrom(records, 0)

(***************************************************************************)
(* src/test_4/main.go: processFile, the concurrent pipeline.               *)
(***************************************************************************)
Value500 == <<"5", "0", "0", "0", "0", "0">>
Value350 == <<"3", "5", "0", "0", "0", "0">>
AddrST == <<"1", " ", "S", "T">>
AddrAVE == <<"2", " ", "A", "V", "E", " ">>

\* rows of the files given to src/test_4/main.go
PipeRows ==
    {RawRow(id, AddrST, Date0110, Value500) : id \in {<<"1">>, <<"2">>, <<"3">>}}
    \cup {RawRow(<<"1">>, AddrST, Date0115, Value500),
          RawRow(<<"3">>, AddrAVE, Date0110, Value500),
          RawRow(<<"2">>, AddrST, Date0110, Value350),
          BlankRow,
          RawRow(<<"2">>, AddrST, Date0110, <<"x">>)}

\* the second file of a run: four records that all pass the filter
PipeProbe ==
    <<Header, RawRow(<<"1">>, AddrST, Date0105, Value500),
              RawRow(<<"2">>, AddrST, Date0105, Value500),
              RawRow(<<"3">>, AddrST, Date0105, Value500),
              RawRow(<<"4">>, AddrST, Date0105, Value500)>>

PipeStored == NewRow(<<"Z">>, <<"S">>, 20200110, 450000)

PipeStores == {EmptyStore, (1 :> PipeStored)}

ChunkSizeOne(n, w) == 1

UnclampedChunkSize(n, w) == n \div w

CeilChunkSize(n, w) == max((n + w - 1) \div w, 1)

\* chunkSize := max(len(recordsDedup)/(*goroutinesNumber), 1)
ChunkSizeFor(n, w) == max(n \div w, 1)

WgAddTwo(counter) == counter + 2

\* wg.Add(1)
WgAdd(counter) == counter + 1

\* wg.Done()
WgDone(counter) == counter - 1

WaitReturnsAtOnce(counter) == TRUE

\* wg.Wait() returns
WgWaitReturns(counter) == counter = 0

SentOrNot(wk) == TRUE

\* the worker's range loop over filtered has ended
AllSent(wk) == wk.next > Len(wk.filtered)

\* processFile up to the chunk loop; the call's locals are new, and a load
\* error returns before any goroutine is started
Load ==
    /\ pc = "process"
    /\ IF ~LoadOk(files[fileIdx])
       THEN /\ pc' = "rollback"
            /\ recordsDedup' = <<>>
            /\ chunkSize' = 0 /\ chunkStart' = 0 /\ chunkEnd' = 0
            /\ workers' = <<>>
            /\ wg' = 0
            /\ waiter' = "none"
            /\ written' = <<>>
       ELSE /\ recordsDedup' = loadAndDeduplicateRecords(files[fileIdx])
            /\ chunkSize' = ChunkSizeFor(Len(recordsDedup'), goroutinesNumber)
            /\ chunkStart' = 0
            /\ chunkEnd' = min(chunkSize', Len(recordsDedup'))
            /\ workers' = <<>>
            /\ wg' = 0
            /\ waiter' = "none"
            /\ written' = <<>>
            /\ pc' = "spawn"
    /\ UNCHANGED <<files, fileIdx, db, tx, rowIdx, duplicates, snapshots,
                   goroutinesNumber>>

\* one iteration of the chunk loop; after the last one the waiter is started
Spawn ==
    /\ pc = "spawn"
    /\ workers' = Append(workers,
            [chunk |-> SubSeq(recordsDedup, chunkStart + 1, chunkEnd),
             filtered |-> <<>>, next |-> 1, pc |-> "filter"])
    /\ wg' = WgAdd(wg)
    /\ IF chunkEnd = Len(recordsDedup)
       THEN /\ pc' = "select"
            /\ waiter' = "wait"
            /\ UNCHANGED <<chunkStart, chunkEnd>>
       ELSE /\ chunkStart' = chunkEnd
            /\ chunkEnd' = min(chunkEnd + chunkSize, Len(recordsDedup))
            /\ UNCHANGED <<pc, waiter>>
    /\ UNCHANGED <<files, fileIdx, db, tx, rowIdx, duplicates, snapshots,
                   goroutinesNumber, recordsDedup, chunkSize, written>>

\* a worker goroutine: filtered := filter(chunk)
WorkerFilter(w) ==
    /\ pc /= "fatal"
    /\ workers[w].pc = "filter"
    /\ workers' = [workers EXCEPT ![w].filtered = filter(workers[w].chunk),
                                  ![w].pc = "send"]
    /\ UNCHANGED <<mainVars, goroutinesNumber, recordsDedup, chunkSize, chunkStart,
                   chunkEnd, wg, waiter, written>>

\* a worker goroutine: wg.Done() after its last send
WorkerDone(w) ==
    /\ pc /= "fatal"
    /\ workers[w].pc = "send"
    /\ AllSent(workers[w])
    /\ workers' = [workers EXCEPT ![w].pc = "exit"]
    /\ wg' = WgDone(wg)
    /\ UNCHANGED <<mainVars, goroutinesNumber, recordsDedup, chunkSize, chunkStart,
                   chunkEnd, waiter, written>>

SendIntoBuffer(w) ==
    /\ pc = "select"
    /\ workers[w].pc = "send"
    /\ workers[w].next <= Len(workers[w].filtered)
    /\ workers' = [workers EXCEPT ![w].next = @ + 1]
    /\ UNCHANGED <<mainVars, goroutinesNumber, recordsDedup, chunkSize, chunkStart,
                   chunkEnd, wg, waiter, written>>

\* ch is unbuffered: the send `ch <- rec` of worker w and the writer's
\* `case rec := <-ch` happen together; the writer then executes the insert
Receive(w) ==
    /\ pc = "select"
    /\ workers[w].pc = "send"
    /\ workers[w].next <= Len(workers[w].filtered)
    /\ LET rec == workers[w].filtered[workers[w].next] IN
       /\ workers' = [workers EXCEPT ![w].next = @ + 1]
       /\ written' = Append(written, rec)
       /\ \E exec \in {"ok", "fails"} :
             IF exec = "ok"
             THEN /\ tx' = InsertOrReplace(tx, rec.id,
                               NewRow(rec.address, rec.suburb, rec.date, rec.value))
                  /\ pc' = pc
             ELSE /\ tx' = tx
                  /\ pc' = "rollback"
    /\ UNCHANGED <<files, fileIdx, db, rowIdx, duplicates, snapshots,
                   goroutinesNumber, recordsDedup, chunkSize, chunkStart, chunkEnd,
                   wg, waiter>>

\* the waiter goroutine: wg.Wait() returns
WaiterWake ==
    /\ pc /= "fatal"
    /\ waiter = "wait"
    /\ WgWaitReturns(wg)
    /\ waiter' = "signal"
    /\ UNCHANGED <<mainVars, goroutinesNumber, recordsDedup, chunkSize, chunkStart,
                   chunkEnd, workers, wg, written>>

\* doneCh is unbuffered: the waiter's send and the writer's `case <-doneCh`
\* happen together; done = true, the loop ends and processFile returns nil
ReceiveDone ==
    /\ pc = "select"
    /\ waiter = "signal"
    /\ waiter' = "exit"
    /\ pc' = "commit"
    /\ UNCHANGED <<files, fileIdx, db, tx, rowIdx, duplicates, snapshots,
                   goroutinesNumber, recordsDedup, chunkSize, chunkStart, chunkEnd,
                   workers, wg, written>>

Init ==
    /\ files \in {<<f>> : f \in FilesOver(PipeRows)}
                \cup {<<f, PipeProbe>> : f \in FilesUpTo(PipeRows, 1)}
                \cup {<<PipeProbe, f>> : f \in FilesUpTo(PipeRows, 2)}
    /\ db \in PipeStores
    /\ tx = db
    /\ snapshots = <<db>>
    /\ fileIdx = 1
    /\ pc = "main"
    /\ rowIdx = 1
    /\ duplicates = {}
    /\ \E g \in 0..MaxGoroutines : goroutinesNumber = max(g, 1)
    /\ recordsDedup = <<>>
    /\ chunkSize = 0 /\ chunkStart = 0 /\ chunkEnd = 0
    /\ workers = <<>>
    /\ wg = 0
    /\ waiter = "none"
    /\ written = <<>>

WorkerStep == \E w \in 1..Len(workers) : WorkerFilter(w) \/ WorkerDone(w)

WriterReceive == \E w \in 1..Len(workers) : Receive(w)

Next ==
    \/ Begin
    \/ Load
    \/ Spawn
    \/ WorkerStep
    \/ WriterReceive
    \/ WaiterWake
    \/ ReceiveDone
    \/ Commit
    \/ Rollback

Spec == Init /\ [][Next]_vars


\* strconv.Itoa for 0..99, to write the id column of a generated file
IntToText(i) ==
    IF i < 10 THEN <<Digits[i + 1]>>
    ELSE <<Digits[(i \div 10) + 1], Digits[(i % 10) + 1]>>

\* a file of n rows with ids 1..n, all passing the filter
FileOfSize(n) ==
    <<Header>> \o [i \in 1..n |-> RawRow(IntToText(i), AddrST, Date0110, Value500)]

\* one generated file, for every record count and goroutine flag up to the given
InitSized(maxRecords, maxFlag) ==
    /\ \E n \in 0..maxRecords : files = <<FileOfSize(n)>>
    /\ db = EmptyStore
    /\ tx = db
    /\ snapshots = <<db>>
    /\ fileIdx = 1
    /\ pc = "main"
    /\ rowIdx = 1
    /\ duplicates = {}
    /\ \E g \in 0..maxFlag : goroutinesNumber = max(g, 1)
    /\ recordsDedup = <<>>
    /\ chunkSize = 0 /\ chunkStart = 0 /\ chunkEnd = 0
    /\ workers = <<>>
    /\ wg = 0
    /\ waiter = "none"
    /\ written = <<>>

\* the chunk loop alone, for every record count and goroutine flag
InitChunks == InitSized(MaxRecords, MaxFlag)

NextChunks == Begin \/ Load \/ Spawn

SpecChunks == InitChunks /\ [][NextChunks]_vars

\* the whole pipeline on one generated file; goroutines that can run are
\* eventually run
InitLive == InitSized(MaxLiveRecords, MaxLiveFlag)

FairSpec == InitLive /\ [][Next]_vars /\ WF_vars(Next)

\* a file of n rows with ids 1..n in which some rows fail the filter's tests:
\* pattern 0 has none, pattern 1 a low value in every 11th row, pattern 2 an
\* AVE address in every 3rd row and a low value in every 4th
MixedRow(i, pattern) ==
    RawRow(IntToText(i),
           IF pattern = 2 /\ i % 3 = 0 THEN AddrAVE ELSE AddrST,
           Date0110,
           IF (pattern = 1 /\ i % 11 = 0) \/ (pattern = 2 /\ i % 4 = 0)
           THEN Value350 ELSE Value500)

MixedFile(n, pattern) == <<Header>> \o [i \in 1..n |-> MixedRow(i, pattern)]

\* the chunk loop and the workers' filter calls, without the handoff
InitFilter ==
    /\ \E n \in 0..MaxFilterRecords, pattern \in 0..2 :
          files = <<MixedFile(n, pattern)>>
    /\ db = EmptyStore
    /\ tx = db
    /\ snapshots = <<db>>
    /\ fileIdx = 1
    /\ pc = "main"
    /\ rowIdx = 1
    /\ duplicates = {}
    /\ \E g \in 0..MaxFlag : goroutinesNumber = max(g, 1)
    /\ recordsDedup = <<>>
    /\ chunkSize = 0 /\ chunkStart = 0 /\ chunkEnd = 0
    /\ workers = <<>>
    /\ wg = 0
    /\ waiter = "none"
    /\ written = <<>>

FilterStep == \E w \in 1..Len(workers) : WorkerFilter(w)

NextFilter == Begin \/ Load \/ Spawn \/ FilterStep

SpecFilter == InitFilter /\ [][NextFilter]_vars

(***************************************************************************)
(* Properties of main and of src/main.go.                                  *)
(***************************************************************************)
\* the rows of a file that yield a record for id (the header is line 1)
Occurrences(file, id) ==
    {i \in 2..Len(file) :
        ~isEmptyRecord(file[i]) /\ RowParses(file[i]) /\ RowId(file[i]) = id}

FileIds(file) ==
    {RowId(file[i]) : i \in {j \in 2..Len(file) :
                                ~isEmptyRecord(file[j]) /\ RowParses(file[j])}}

\* C1: when processFile fails on file K, the committed store equals the
\* contents after committing files 1..K-1: none of file K's writes is
\* visible and no later file has had any effect.
FailureLeavesEarlierFilesOnly ==
    pc = "fatal" =>
        /\ Len(snapshots) = fileIdx
        /\ db = snapshots[fileIdx]

FailedSecondFileAfterWrites ==
    /\ pc = "fatal"
    /\ fileIdx = 2
    /\ snapshots[2] /= snapshots[1]
    /\ tx /= db

\* the loop iteration of processFile handled a row whose id was already stored
RefreshedExistingId ==
    /\ pc = "rows" /\ pc' = "rows" /\ rowIdx' = rowIdx + 1
    /\ ~isEmptyRecord(files[fileIdx][rowIdx])
    /\ RowId(files[fileIdx][rowIdx]) \in DOMAIN tx

\* C2 (as amended): a row whose id is already stored overwrites the stored
\* address/suburb/date/value exactly when the stored date is less than or
\* equal to the incoming date; otherwise the stored row is left unchanged.
RefreshOnlyIfIncomingNotOlder ==
    [][RefreshedExistingId =>
        LET record == files[fileIdx][rowIdx] IN
        tx'[RowId(record)] =
            IF tx[RowId(record)].date <= RowOf(record).date
            THEN RowOf(record) ELSE tx[RowId(record)]]_vars

\* C2 as claimed: the stored row is overwritten only if the incoming date is
\* less than or equal to the stored date.
RefreshOnlyIfIncomingNotNewer ==
    [][RefreshedExistingId =>
        LET record == files[fileIdx][rowIdx] IN
        tx'[RowId(record)] =
            IF RowOf(record).date <= tx[RowId(record)].date
            THEN RowOf(record) ELSE tx[RowId(record)]]_vars

\* stored 2020-01-10 for ids 1 and 2; incoming 2020-01-15 for id 1 took
\* effect, incoming 2020-01-05 for id 2 did not
RefreshExampleCommitted ==
    /\ Len(snapshots) >= 2
    /\ DOMAIN snapshots[1] = {1, 2}
    /\ files[1] = <<Header, RawRow(<<"1">>, <<"B">>, Date0115, <<"V">>),
                            RawRow(<<"2">>, <<"B">>, Date0105, <<"V">>)>>
    /\ snapshots[2][1] = NewRow(<<"B">>, <<"S">>, 20200115, <<"V">>)
    /\ snapshots[2][2] = StoredZ

\* C8: ingesting the same file twice in a row leaves the store as one
\* ingestion left it.
RefreshIdempotent ==
    (Len(snapshots) = 3 /\ files[1] = files[2]) => snapshots[3] = snapshots[2]

SameFileTwiceWithRepeatedId ==
    /\ Len(snapshots) = 3
    /\ files[1] = files[2]
    /\ snapshots[2] /= snapshots[1]
    /\ \E i, j \in Occurrences(files[1], 1) :
          i < j /\ RowOf(files[1][i]).date > RowOf(files[1][j]).date
    /\ Occurrences(files[1], 2) /= {}
    /\ 1 \in DOMAIN snapshots[1]

\* the last occurrence of id among those carrying the latest date
LastLatest(file, id) ==
    CHOOSE i \in Occurrences(file, id) :
        \A j \in Occurrences(file, id) :
            \/ RowOf(file[j]).date < RowOf(file[i]).date
            \/ RowOf(file[j]).date = RowOf(file[i]).date /\ j <= i

RepeatedIds(file) == {id \in FileIds(file) : Cardinality(Occurrences(file, id)) >= 2}

\* C9 as claimed: an id repeated within a file committed into an empty store
\* has no row afterwards.
RepeatedIdNotPersisted ==
    (pc = "main" /\ Len(snapshots) = 2 /\ snapshots[1] = EmptyStore) =>
        \A id \in RepeatedIds(files[1]) : id \notin DOMAIN snapshots[2]

\* C9 (as amended): an id repeated within a file committed into an empty
\* store has exactly one row afterwards, holding the fields of the last
\* occurrence among those with the latest date.
RepeatedIdKeepsLastLatest ==
    (pc = "main" /\ Len(snapshots) = 2 /\ snapshots[1] = EmptyStore) =>
        \A id \in RepeatedIds(files[1]) :
            /\ id \in DOMAIN snapshots[2]
            /\ snapshots[2][id] = RowOf(files[1][LastLatest(files[1], id)])

RepeatedIdCommitted ==
    /\ pc = "main" /\ Len(snapshots) = 2
    /\ snapshots[1] = EmptyStore
    /\ \E i, j \in Occurrences(files[1], 1) :
          /\ i < j
          /\ RowOf(files[1][i]).date = RowOf(files[1][j]).date
          /\ RowOf(files[1][i]) /= RowOf(files[1][j])

(***************************************************************************)
(* Properties of src/unnamed/part_000.                                     *)
(***************************************************************************)
PurgeOutcome(before, file, after) ==
    /\ DOMAIN after \subseteq DOMAIN before \cup FileIds(file)
    /\ \A id \in DOMAIN before \cup FileIds(file) :
          IF Occurrences(file, id) = {}
          THEN id \in DOMAIN after /\ after[id] = before[id]
          ELSE IF Cardinality(Occurrences(file, id)) = 1 /\ id \notin DOMAIN before
          THEN /\ id \in DOMAIN after
               /\ after[id] = RowOf(file[CHOOSE i \in Occurrences(file, id) : TRUE])
          ELSE id \notin DOMAIN after

\* C10: after a successful ingestion, an id already stored before the file or
\* repeated within it has no row; an id occurring once and not stored before
\* is present with the file's values; rows of other ids are unchanged.
PurgeOnConflict ==
    (pc \in {"main", "done"} /\ Len(snapshots) >= 2) =>
        PurgeOutcome(snapshots[Len(snapshots) - 1], files[Len(snapshots) - 1],
                     snapshots[Len(snapshots)])

PurgedInsertedAndUntouched ==
    /\ pc = "main" /\ Len(snapshots) = 2
    /\ DOMAIN snapshots[1] = {1, 3}
    /\ Occurrences(files[1], 1) /= {}
    /\ Cardinality(Occurrences(files[1], 2)) = 1
    /\ Occurrences(files[1], 3) = {}
    /\ DOMAIN snapshots[2] = {2, 3}

(***************************************************************************)
(* Properties of src/test_4/main.go.                                       *)
(***************************************************************************)
\* the ids that two or more non-blank rows of the file carry
RepeatedRowIds(file) ==
    LET rows == {i \in 2..Len(file) : ~isEmptyRecord(file[i]) /\ ParseIntOk(file[i][1])}
    IN {ParseInt(file[i][1]) : i \in {j \in rows :
            \E k \in rows : k /= j /\ ParseInt(file[k][1]) = ParseInt(file[j][1])}}

SeqIds(records) == {records[i].id : i \in 1..Len(records)}

\* C3: an id that two or more non-blank rows of a file carry never reaches a
\* worker chunk or the writer, and is absent from the store after the file is
\* ingested into an empty store.
DuplicateIdsExcluded ==
    /\ pc \in {"spawn", "select", "commit", "rollback", "fatal"} =>
          \A id \in RepeatedRowIds(files[fileIdx]) :
             /\ \A w \in 1..Len(workers) : id \notin SeqIds(workers[w].chunk)
             /\ id \notin SeqIds(written)
             /\ id \notin DOMAIN db => id \notin DOMAIN tx
    /\ (pc \in {"main", "done"} /\ Len(snapshots) >= 2 /\ snapshots[1] = EmptyStore) =>
          \A id \in RepeatedRowIds(files[1]) : id \notin DOMAIN snapshots[2]

DuplicateDroppedOtherStored ==
    /\ pc = "done" /\ Len(snapshots) = 2
    /\ snapshots[1] = EmptyStore
    /\ files[1] = <<Header, RawRow(<<"1">>, AddrST, Date0110, Value500),
                            RawRow(<<"2">>, AddrST, Date0110, Value500),
                            RawRow(<<"1">>, AddrST, Date0115, Value500)>>
    /\ DOMAIN snapshots[2] = {2}

\* the records the workers' filters accept, in chunk order
RECURSIVE AcceptedFrom(_)
AcceptedFrom(w) ==
    IF w > Len(workers) THEN <<>>
    ELSE filter(workers[w].chunk) \o AcceptedFrom(w + 1)

Accepted == AcceptedFrom(1)

\* C4: when processFile returns nil, every record accepted by a worker's
\* filter has been passed to the store write exactly once.
AcceptedWrittenExactlyOnce ==
    pc = "commit" =>
        /\ Len(written) = Len(Accepted)
        /\ \A i \in 1..Len(Accepted) :
              Cardinality({j \in 1..Len(written) : written[j] = Accepted[i]}) = 1

WrittenOutOfChunkOrder ==
    /\ pc = "commit"
    /\ Len(workers) >= 2
    /\ Len(written) = 4
    /\ written /= Accepted

\* C5: under fair scheduling the writer loop always ends: processFile
\* returns (nil after the completion signal, or the error of a failed write).
WriterLoopEnds == (pc = "select") ~> (pc \in {"commit", "rollback"})

EmptySetCompleted ==
    /\ pc = "commit"
    /\ recordsDedup = <<>>
    /\ goroutinesNumber = 3
    /\ Len(workers) = 1
    /\ workers[1].pc = "exit"
    /\ waiter = "exit"

\* the store that results from replacing, in the store before the file, the
\* row of every accepted record
StoreWithAccepted(before, accepted) ==
    [id \in DOMAIN before \cup SeqIds(accepted) |->
        IF id \in SeqIds(accepted)
        THEN LET rec == accepted[CHOOSE i \in 1..Len(accepted) :
                            /\ accepted[i].id = id
                            /\ \A j \in 1..Len(accepted) : accepted[j].id = id => j <= i]
             IN NewRow(rec.address, rec.suburb, rec.date, rec.value)
        ELSE before[id]]

\* C6: after a successful processFile the transaction's contents are those
\* determined by the deduplicated records and the chunking alone, whatever
\* order the writer received the accepted records in.
StoreIndependentOfReceiptOrder ==
    pc = "commit" => tx = StoreWithAccepted(db, Accepted)

ReplacedStoredOutOfOrder ==
    /\ pc = "commit"
    /\ fileIdx = 1
    /\ Len(written) >= 2
    /\ written /= Accepted
    /\ 1 \in DOMAIN db /\ tx[1] /= db[1]

RECURSIVE ChunksFrom(_)
ChunksFrom(w) ==
    IF w > Len(workers) THEN <<>> ELSE workers[w].chunk \o ChunksFrom(w + 1)

\* all chunks but the last have the given size, the last is no larger, and
\* together they are the deduplicated sequence
ChunksOfSize(size) ==
    /\ \A w \in 1..(Len(workers) - 1) : Len(workers[w].chunk) = size
    /\ Len(workers[Len(workers)].chunk) <= size
    /\ ChunksFrom(1) = recordsDedup

\* C7 as claimed: W contiguous chunks of size ceil(n/W), the last possibly
\* smaller.
ChunksAreCeilSizedAndW ==
    pc = "select" =>
        /\ Len(workers) = goroutinesNumber
        /\ ChunksOfSize((Len(recordsDedup) + goroutinesNumber - 1) \div goroutinesNumber)

\* C7 (as amended): contiguous chunks of size max(floor(n/W), 1), the last
\* possibly smaller (one empty chunk when n = 0); their number is n divided
\* by that size, rounded up, which can exceed W.
ChunksAreFloorSized ==
    pc = "select" =>
        LET n == Len(recordsDedup)
            size == IF n \div goroutinesNumber >= 1 THEN n \div goroutinesNumber ELSE 1
        IN /\ Len(workers) = IF n = 0 THEN 1 ELSE (n + size - 1) \div size
           /\ ChunksOfSize(size)

SmallerFinalChunk ==
    /\ pc = "select"
    /\ Len(recordsDedup) = 5
    /\ goroutinesNumber = 2
    /\ Len(workers) = 3
    /\ Len(workers[3].chunk) = 1

\* ---------------------------------------------------------------------
\* C11: files are processed one after another.  When main is about to begin
\* the transaction of a later file, the previous file's transaction is
\* committed (the committed store is the last snapshot and no transaction
\* view differs from it), every accepted record of the previous file has
\* been handed to the store, and no goroutine of the previous file is
\* still running.
PreviousFileFinished ==
    (pc = "main" /\ fileIdx > 1) =>
        /\ Len(snapshots) = fileIdx
        /\ db = snapshots[fileIdx]
        /\ tx = db
        /\ \A w \in 1..Len(workers) : workers[w].pc = "exit"
        /\ waiter = "exit"
        /\ wg = 0
        /\ Len(written) = Len(Accepted)
        /\ \A k \in 1..Len(Accepted) :
              \E j \in 1..Len(written) : written[j] = Accepted[k]
        /\ \A k \in 1..Len(Accepted) :
              snapshots[fileIdx][Accepted[k].id].address = Accepted[k].address

SecondFileAboutToBegin ==
    /\ pc = "main"
    /\ fileIdx = 2
    /\ files[1] = PipeProbe
    /\ Len(workers) > 1
    /\ Len(written) = 4

\* ---------------------------------------------------------------------
\* a record that passes the threshold rule and the suffix rule
Candidate(rec) == rec.value >= 400000 /\ ~ExcludedSuffix(rec.address)

\* the records left by the threshold and suffix rules alone
Survivors(records) == SelectSeq(records, Candidate)

RECURSIVE SurvivorsOfChunksFrom(_)
SurvivorsOfChunksFrom(w) ==
    IF w > Len(workers) THEN <<>>
    ELSE Survivors(workers[w].chunk) \o SurvivorsOfChunksFrom(w + 1)

RECURSIVE FilteredFrom(_)
FilteredFrom(w) ==
    IF w > Len(workers) THEN <<>>
    ELSE workers[w].filtered \o FilteredFrom(w + 1)

SeqSet(seq) == {seq[k] : k \in 1..Len(seq)}

AllFiltered ==
    pc = "select" /\ \A w \in 1..Len(workers) : workers[w].pc /= "filter"

\* C12: without the periodic rule the accepted set does not depend on the
\* worker count.  For every worker count (1 and 4 among them) the records
\* left by the threshold and suffix rules over the chunks are those left by
\* the two rules over the whole deduplicated set, which is the one chunk of
\* worker count 1; and when the set has fewer candidates than the period,
\* so that the periodic rule of the code cannot fire in any chunking, the
\* set the code's filter accepts over the chunks is that same set.
AcceptedSetIndependentOfWorkers ==
    AllFiltered =>
        /\ goroutinesNumber = 1 =>
              (Len(workers) = 1 /\ workers[1].chunk = recordsDedup)
        /\ SeqSet(SurvivorsOfChunksFrom(1)) = SeqSet(Survivors(recordsDedup))
        /\ Len(Survivors(recordsDedup)) < 10 =>
              /\ SeqSet(FilteredFrom(1)) = SeqSet(Survivors(recordsDedup))
              /\ SeqSet(FilteredFrom(1)) = SeqSet(filter(recordsDedup))

FourWorkersMixedChunks ==
    /\ AllFiltered
    /\ goroutinesNumber = 4
    /\ Len(workers) >= 4
    /\ Len(recordsDedup) = 12
    /\ Len(Survivors(recordsDedup)) = 6
    /\ SeqSet(FilteredFrom(1)) = SeqSet(filter(recordsDedup))

\* C16: within one filter call the candidates (records passing the
\* threshold and suffix rules) numbered 10, 20, 30, ... are dropped and the
\* others are emitted in order, m candidates giving m - m div 10 accepted
\* records; this holds for the chunk of every worker separately.
EveryTenthCandidateDropped ==
    \A w \in 1..Len(workers) :
        workers[w].pc /= "filter" =>
            LET c == Survivors(workers[w].chunk)
                m == Len(c)
            IN /\ Len(workers[w].filtered) = m - (m \div 10)
               /\ workers[w].filtered =
                     [j \in 1..(m - (m \div 10)) |-> c[j + ((j - 1) \div 9)]]

TwentyCandidatesInOneChunk ==
    /\ Len(workers) = 1
    /\ workers[1].pc = "send"
    /\ Len(workers[1].chunk) = 22
    /\ Len(Survivors(workers[1].chunk)) = 20
    /\ Len(workers[1].filtered) = 18
    /\ workers[1].filtered[10].id = 12

\* ---------------------------------------------------------------------
\* a row whose fields are all empty strings
AllFieldsEmpty(row) == \A k \in 1..Len(row) : row[k] = <<>>

NotAllFieldsEmpty(row) == ~AllFieldsEmpty(row)

\* C13: a row of empty fields gives no parse error and no record and is not
\* counted in the duplicate-frequency map: loading a file fails exactly when
\* one of its other rows is malformed, and otherwise the records, the
\* frequency map and the deduplicated set are those of the file with the
\* empty rows taken out.
EmptyRowsAsIfAbsent ==
    [][pc = "process" =>
        LET f == files[fileIdx]
            g == SelectSeq(f, NotAllFieldsEmpty)
        IN IF \A i \in 2..Len(g) : RecordParses(g[i])
           THEN /\ pc' = "spawn"
                /\ recordsDedup' = loadAndDeduplicateRecords(g)
                /\ Len(RecordsFrom(f, 2)) =
                      Cardinality({i \in 2..Len(f) : NotAllFieldsEmpty(f[i])})
                /\ InsertCounts(RecordsFrom(f, 2)) = InsertCounts(RecordsFrom(g, 2))
           ELSE pc' = "rollback"]_vars

EmptyRowBetweenStoredRows ==
    /\ pc = "done"
    /\ files = <<(<<Header, RawRow(<<"1">>, AddrST, Date0110, Value500),
                            BlankRow,
                            RawRow(<<"2">>, AddrST, Date0110, Value500)>>)>>
    /\ snapshots[1] = EmptyStore
    /\ DOMAIN db = {1, 2}
    /\ Len(recordsDedup) = 2

\* ---------------------------------------------------------------------
\* C14: after a failed store write the writer receives no further record,
\* and under fair scheduling every worker still finishes its sends and
\* calls wg.Done, and the waiter finishes as well.
WorkersFinishAfterFailedWrite ==
    /\ [][(pc \in {"rollback", "fatal"}) => (written' = written)]_vars
    /\ (pc = "rollback") ~>
          (/\ \A w \in 1..Len(workers) : workers[w].pc = "exit"
           /\ waiter = "exit")

\* ---------------------------------------------------------------------
\* C15: for every number of deduplicated records and every worker count W
\* the chunk loop starts at most W + 1 filter goroutines.
AtMostOneExtraWorker == Len(workers) <= goroutinesNumber + 1

\* the number of records in the chunks of the workers before w
RECURSIVE ChunkOffset(_)
ChunkOffset(w) ==
    IF w = 1 THEN 0 ELSE ChunkOffset(w - 1) + Len(workers[w - 1].chunk)

\* C19: for every record count n and worker count W the chunks handed to
\* the workers are contiguous and pairwise disjoint and cover the
\* deduplicated records exactly; every chunk is non-empty, except the one
\* empty chunk when n = 0; and the loop ends after at most max(n, 1)
\* chunks, each iteration that is still to come starting a non-empty chunk.
ChunksPartitionRecords ==
    pc \in {"spawn", "select"} =>
        LET n == Len(recordsDedup)
            done == ChunkOffset(Len(workers) + 1)
        IN /\ \A w \in 1..Len(workers) :
                 workers[w].chunk =
                     SubSeq(recordsDedup, ChunkOffset(w) + 1, ChunkOffset(w + 1))
           /\ \A w \in 1..Len(workers) : n > 0 => Len(workers[w].chunk) > 0
           /\ n = 0 => Len(workers) <= 1
           /\ Len(workers) <= (IF n = 0 THEN 1 ELSE n)
           /\ pc = "spawn" =>
                 /\ done = chunkStart
                 /\ chunkEnd <= n
                 /\ n > 0 => chunkStart < chunkEnd
           /\ pc = "select" =>
                 /\ done = n
                 /\ Len(workers) >= 1

FewerRecordsThanWorkers ==
    /\ pc = "select"
    /\ Len(recordsDedup) = 3
    /\ goroutinesNumber = 5
    /\ Len(workers) = 3
    /\ \A w \in 1..3 : workers[w].chunk = <<recordsDedup[w]>>

\* ---------------------------------------------------------------------
\* C17: in the pipeline, when an id is already stored by an earlier
\* committed file and the file just committed contains that id two or more
\* times, the stored row of that id is exactly the earlier row: it is
\* neither overwritten nor deleted.
StoredRowOfRepeatedIdKept ==
    (pc \in {"main", "done"} /\ Len(snapshots) >= 2) =>
        LET k == Len(snapshots) - 1
            before == snapshots[k]
            after == snapshots[k + 1]
        IN \A id \in DOMAIN before :
              Cardinality(Occurrences(files[k], id)) >= 2 =>
                  (id \in DOMAIN after /\ after[id] = before[id])

RepeatedIdAfterEarlierFile ==
    /\ pc = "done"
    /\ Len(files) = 2
    /\ files[1] = PipeProbe
    /\ Cardinality(Occurrences(files[2], 1)) = 2
    /\ snapshots[1] = EmptyStore
    /\ Len(snapshots) = 3
    /\ snapshots[3][1] = snapshots[2][1]
    /\ snapshots[2][1].date = 20200105

\* ---------------------------------------------------------------------
\* the records worker w has sent and gone on from
Passed(w) == workers[w].next - 1

\* worker w stands at `ch <- rec` with a record the writer has not received
Offering(w) ==
    workers[w].pc = "send" /\ workers[w].next <= Len(workers[w].filtered)

RECURSIVE EmittedFrom(_)
EmittedFrom(w) ==
    IF w > Len(workers) THEN 0
    ELSE Passed(w) + (IF Offering(w) THEN 1 ELSE 0) + EmittedFrom(w + 1)

RECURSIVE PassedFrom(_)
PassedFrom(w) == IF w > Len(workers) THEN 0 ELSE Passed(w) + PassedFrom(w + 1)

\* C18: the handoff buffers nothing.  A worker goes on to its next record
\* only when the writer has received the current one, so every record a
\* worker has gone on from is among the received ones, each worker has at
\* most one record offered and not received, and the records emitted never
\* exceed the records received plus the number of workers.
HandoffBuffersNothing ==
    /\ PassedFrom(1) = Len(written)
    /\ \A w \in 1..Len(workers) :
          \A j \in 1..Passed(w) :
              \E k \in 1..Len(written) : written[k] = workers[w].filtered[j]
    /\ EmittedFrom(1) - Len(written) =
          Cardinality({w \in 1..Len(workers) : Offering(w)})
    /\ EmittedFrom(1) <= Len(written) + Len(workers)

TwoWorkersOffering ==
    /\ pc = "select"
    /\ Len(workers) = 2
    /\ Offering(1) /\ Offering(2)
    /\ Passed(1) = 1
    /\ Len(written) = 1
    /\ EmittedFrom(1) = 3

\* ---------------------------------------------------------------------
\* C20: in the purge-on-conflict variant, when the store holds none of a
\* file's ids and the file is ingested twice in a row, the store afterwards
\* has no row for any id that occurs in the file.
IngestedTwicePurgesAll ==
    (/\ pc \in {"main", "done"}
     /\ Len(snapshots) = 3
     /\ files[1] = files[2]
     /\ FileIds(files[1]) \cap DOMAIN snapshots[1] = {}) =>
        FileIds(files[1]) \cap DOMAIN snapshots[3] = {}

SingleAndRepeatedIdPurgedOnSecondRun ==
    /\ pc = "done"
    /\ Len(snapshots) = 3
    /\ files[1] = files[2]
    /\ DOMAIN snapshots[1] = {3}
    /\ Cardinality(Occurrences(files[1], 1)) = 1
    /\ Cardinality(Occurrences(files[1], 2)) = 2
    /\ DOMAIN snapshots[2] = {1, 3}
    /\ DOMAIN snapshots[3] = {3}

====
